---- MODULE Spec2Model ----
(***************************************************************************)
(* Model of src/postcss.js, the PostCSS component of media-query-plugin:   *)
(* the parser of width conditions (getQueryBounds), the interval algebra   *)
(* (nullBounds, boundsIncluded, boundsIntersects, subtractBounds,          *)
(* getBoundsSize) and the walkAtRules callback that copies a media rule to *)
(* the store once per matching configured query and removes it when        *)
(* nothing of it is left.  The prefix getGroupName puts before the name of *)
(* a media file is the same for every rule of a run and is left out.       *)
(*                                                                         *)
(* JavaScript numbers are records: [k |-> "num", v |-> n] is the integer   *)
(* n, [k |-> "inf", v |-> s] is s * Infinity and [k |-> "nan", v |-> 0] is *)
(* NaN.  The operators js* give the JavaScript meaning of <, <=, >, >=,    *)
(* ==, - and + on them (every comparison with NaN is false).               *)
(*                                                                         *)
(* A media query string is a record of what the two regular expressions    *)
(* can see in it: the min-width and max-width literals (or their absence)  *)
(* and whether it is written with the whitespace that normalize removes.   *)
(***************************************************************************)
EXTENDS Integers, Sequences, FiniteSets, TLC

VARIABLES
    queries,             \* Object.keys(options.queries), in insertion order
    queriesBounds,       \* queriesBounds[i]: the Bounds of queries[i]
    atRule,              \* the media rule walked: [params, removed]
    queryNames,          \* the candidates of the rule, as indices into queries
    trace,               \* the calls of one callback run, in program order
    remainder,           \* the value the queryNames reduce returned
    boundsRemainderSize, \* the residual size of the rule
    pc,                  \* position of the component
    queryA, queryB,      \* inputs of the algebra: two query strings
    boundsA, boundsB,    \* operands of the algebra
    call,                \* the algebra function last called
    returned             \* what it returned (or threw)

vars == <<queries, queriesBounds, atRule, queryNames, trace, remainder,
          boundsRemainderSize, pc, queryA, queryB, boundsA, boundsB, call,
          returned>>

walkVars == <<queries, queriesBounds, atRule, queryNames, trace, remainder,
              boundsRemainderSize>>

algebraVars == <<queryA, queryB, boundsA, boundsB, call, returned>>

(***************************************************************************)
(* Bounds of the model.                                                    *)
(***************************************************************************)
\* largest pixel literal of the queries given to the algebra and to the
\* coverage runs
MaxWidth == 3
\* the negative pixel literals of the queries given to the algebra are
\* -MaxNegative .. -1
MaxNegative == 1
\* largest pixel literal of the queries of the unrestricted walk
MaxLiteral == 1
\* largest number of configured queries
MaxQueries == 2

(***************************************************************************)
(* JavaScript numbers.                                                     *)
(***************************************************************************)
Num(n) == [k |-> "num", v |-> n]

NaN == [k |-> "nan", v |-> 0]

NEGATIVE_INFINITY == [k |-> "inf", v |-> -1]

POSITIVE_INFINITY == [k |-> "inf", v |-> 1]

\* a < b
jsLt(a, b) ==
    /\ a.k # "nan"
    /\ b.k # "nan"
    /\ CASE a.k = "inf" /\ b.k = "inf" -> a.v < b.v
         [] a.k = "inf" -> a.v < 0
         [] b.k = "inf" -> b.v > 0
         [] OTHER -> a.v < b.v

\* a == b on numbers
jsEq(a, b) == a.k # "nan" /\ b.k # "nan" /\ a = b

\* a <= b
jsLe(a, b) == jsLt(a, b) \/ jsEq(a, b)

\* a > b
jsGt(a, b) == jsLt(b, a)

\* a >= b
jsGe(a, b) == jsLe(b, a)

\* a - b
jsSub(a, b) ==
    CASE a.k = "nan" \/ b.k = "nan" -> NaN
      [] a.k = "inf" /\ b.k = "inf" -> IF a.v = b.v THEN NaN ELSE a
      [] a.k = "inf" -> a
      [] b.k = "inf" -> [k |-> "inf", v |-> 0 - b.v]
      [] OTHER -> Num(a.v - b.v)

\* a + b
jsAdd(a, b) ==
    CASE a.k = "nan" \/ b.k = "nan" -> NaN
      [] a.k = "inf" /\ b.k = "inf" -> IF a.v = b.v THEN a ELSE NaN
      [] a.k = "inf" -> a
      [] b.k = "inf" -> b
      [] OTHER -> Num(a.v + b.v)

(***************************************************************************)
(* Query strings.                                                          *)
(***************************************************************************)
\* no "min-width:" / "max-width:" literal in the string; also the undefined
\* that a failed match leaves
Absent == [k |-> "absent", v |-> 0]

\* the signed integer literal n followed by px
Lit(n) == [k |-> "lit", v |-> n]

Tokens(lo, hi) == {Absent} \cup {Lit(n) : n \in lo..hi}

\* the query strings whose literals are in lo..hi
Texts(lo, hi) ==
    [minWidth : Tokens(lo, hi), maxWidth : Tokens(lo, hi), spaced : BOOLEAN]

\* utils/normalize: strips the formatting variance of a query string
normalize(query) == [query EXCEPT !.spaced = FALSE]

\* minWidthRegExp.exec(nquery)?.[1] ?? undefined: the pattern has no room
\* for whitespace, so it matches only the normalized form
minWidthRegExp(nquery) == IF nquery.spaced THEN Absent ELSE nquery.minWidth

\* maxWidthRegExp.exec(nquery)?.[1] ?? undefined
maxWidthRegExp(nquery) == IF nquery.spaced THEN Absent ELSE nquery.maxWidth

\* unary plus on a captured group or undefined
jsNumber(capture) == IF capture = Absent THEN NaN ELSE Num(capture.v)

\* getQueryBounds with minWidth > 0 in place of minWidth >= 0 on line 25
getQueryBoundsPositiveMin(query) ==
    LET nquery == normalize(query)
        minWidth == jsNumber(minWidthRegExp(nquery))
        maxWidth == jsNumber(maxWidthRegExp(nquery))
    IN  IF jsGt(minWidth, Num(0)) \/ jsGt(maxWidth, Num(0))
        THEN [minWidth |-> IF jsGt(minWidth, Num(0)) THEN minWidth
                           ELSE NEGATIVE_INFINITY,
              maxWidth |-> IF jsGe(maxWidth, Num(0)) THEN maxWidth
                           ELSE POSITIVE_INFINITY]
        ELSE [minWidth |-> minWidth, maxWidth |-> maxWidth]

getQueryBounds(query) ==
    LET nquery == normalize(query)
        minWidth == jsNumber(minWidthRegExp(nquery))
        maxWidth == jsNumber(maxWidthRegExp(nquery))
    IN  IF jsGt(minWidth, Num(0)) \/ jsGt(maxWidth, Num(0))
        THEN [minWidth |-> IF jsGe(minWidth, Num(0)) THEN minWidth
                           ELSE NEGATIVE_INFINITY,
              maxWidth |-> IF jsGe(maxWidth, Num(0)) THEN maxWidth
                           ELSE POSITIVE_INFINITY]
        ELSE [minWidth |-> minWidth, maxWidth |-> maxWidth]

(***************************************************************************)
(* The interval algebra.                                                   *)
(***************************************************************************)
\* null
Null == [null |-> TRUE]

\* a JavaScript array
Arr(items) == [array |-> items]

IsArray(x) == DOMAIN x = {"array"}

\* what destructuring null throws
TypeError == [threw |-> "TypeError"]

\* a returned boolean
Bool(b) == [bool |-> b]

nullBounds(bounds) ==
    IF jsEq(bounds.minWidth, bounds.maxWidth) THEN Null ELSE bounds

boundsIncluded(boundsA_, boundsB_) ==
    /\ jsGe(boundsA_.minWidth, boundsB_.minWidth)
    /\ jsLe(boundsA_.maxWidth, boundsB_.maxWidth)

boundsIntersects(boundsA_, boundsB_) ==
    IF jsLe(boundsA_.minWidth, boundsB_.minWidth)
    THEN jsGt(boundsA_.maxWidth, boundsB_.minWidth)
    ELSE jsLt(boundsA_.minWidth, boundsB_.maxWidth)

\* Array.prototype.flat / the flattening of flatMap: one level
RECURSIVE Flat(_)
Flat(items) ==
    IF items = <<>> THEN <<>>
    ELSE (IF IsArray(Head(items)) THEN Head(items).array ELSE <<Head(items)>>)
         \o Flat(Tail(items))

\* subtractOne without .map(nullBounds) on line 96
subtractOneNoNullBounds(a, b) ==
    IF a = Null THEN Null
    ELSE IF b = Null THEN a
    ELSE IF boundsIncluded(a, b) THEN Null
    ELSE IF boundsIncluded(b, a)
    THEN Arr(<<[minWidth |-> a.minWidth, maxWidth |-> b.minWidth],
               [minWidth |-> b.maxWidth, maxWidth |-> a.maxWidth]>>)
    ELSE IF boundsIntersects(a, b)
    THEN IF jsLt(a.minWidth, b.minWidth)
         THEN [minWidth |-> a.minWidth, maxWidth |-> b.minWidth]
         ELSE [minWidth |-> b.maxWidth, maxWidth |-> a.maxWidth]
    ELSE a

\* subtractOne without the boundsIntersects test of line 98
subtractOneNoIntersects(a, b) ==
    IF a = Null THEN Null
    ELSE IF b = Null THEN a
    ELSE IF boundsIncluded(a, b) THEN Null
    ELSE IF boundsIncluded(b, a)
    THEN Arr(<<nullBounds([minWidth |-> a.minWidth, maxWidth |-> b.minWidth]),
               nullBounds([minWidth |-> b.maxWidth, maxWidth |-> a.maxWidth])>>)
    ELSE IF TRUE
    THEN IF jsLt(a.minWidth, b.minWidth)
         THEN [minWidth |-> a.minWidth, maxWidth |-> b.minWidth]
         ELSE [minWidth |-> b.maxWidth, maxWidth |-> a.maxWidth]
    ELSE a

\* subtractOne with boundsB.minWidth for boundsB.maxWidth on line 95
subtractOneSplitTypo(a, b) ==
    IF a = Null THEN Null
    ELSE IF b = Null THEN a
    ELSE IF boundsIncluded(a, b) THEN Null
    ELSE IF boundsIncluded(b, a)
    THEN Arr(<<nullBounds([minWidth |-> a.minWidth, maxWidth |-> b.minWidth]),
               nullBounds([minWidth |-> b.minWidth, maxWidth |-> a.maxWidth])>>)
    ELSE IF boundsIntersects(a, b)
    THEN IF jsLt(a.minWidth, b.minWidth)
         THEN [minWidth |-> a.minWidth, maxWidth |-> b.minWidth]
         ELSE [minWidth |-> b.maxWidth, maxWidth |-> a.maxWidth]
    ELSE a

\* subtractOne with the comparison of line 99 turned round
subtractOneSwapped(a, b) ==
    IF a = Null THEN Null
    ELSE IF b = Null THEN a
    ELSE IF boundsIncluded(a, b) THEN Null
    ELSE IF boundsIncluded(b, a)
    THEN Arr(<<nullBounds([minWidth |-> a.minWidth, maxWidth |-> b.minWidth]),
               nullBounds([minWidth |-> b.maxWidth, maxWidth |-> a.maxWidth])>>)
    ELSE IF boundsIntersects(a, b)
    THEN IF jsGt(a.minWidth, b.minWidth)
         THEN [minWidth |-> a.minWidth, maxWidth |-> b.minWidth]
         ELSE [minWidth |-> b.maxWidth, maxWidth |-> a.maxWidth]
    ELSE a

\* subtractBounds on a boundsA that is no array
subtractOne(a, b) ==
    IF a = Null THEN Null
    ELSE IF b = Null THEN a
    ELSE IF boundsIncluded(a, b) THEN Null
    ELSE IF boundsIncluded(b, a)
    THEN Arr(<<nullBounds([minWidth |-> a.minWidth, maxWidth |-> b.minWidth]),
               nullBounds([minWidth |-> b.maxWidth, maxWidth |-> a.maxWidth])>>)
    ELSE IF boundsIntersects(a, b)
    THEN IF jsLt(a.minWidth, b.minWidth)
         THEN [minWidth |-> a.minWidth, maxWidth |-> b.minWidth]
         ELSE [minWidth |-> b.maxWidth, maxWidth |-> a.maxWidth]
    ELSE a

\* the elements of an array remainder are never arrays (flatMap flattened
\* them), so the recursive call of line 87 is subtractOne
subtractBounds(a, b) ==
    IF IsArray(a)
    THEN Arr(Flat([i \in 1..Len(a.array) |-> subtractOne(a.array[i], b)]))
    ELSE subtractOne(a, b)

\* getBoundsSize counting the whole gap: x > 0 ? x : 0
getBoundsSizeNoGap(bounds) ==
    IF bounds = Null THEN TypeError
    ELSE LET x == jsSub(bounds.maxWidth, bounds.minWidth)
         IN  IF jsGt(x, Num(0)) THEN x ELSE Num(0)

\* getBoundsSize with the test negated: x <= 1 ? 0 : x - 1
getBoundsSizeNegated(bounds) ==
    IF bounds = Null THEN TypeError
    ELSE LET x == jsSub(bounds.maxWidth, bounds.minWidth)
         IN  IF jsLe(x, Num(1)) THEN Num(0) ELSE jsSub(x, Num(1))

\* destructuring null throws
getBoundsSize(bounds) ==
    IF bounds = Null THEN TypeError
    ELSE LET x == jsSub(bounds.maxWidth, bounds.minWidth)
         IN  IF jsGt(x, Num(1)) THEN jsSub(x, Num(1)) ELSE Num(0)

(***************************************************************************)
(* The plugin: options.queries, queriesBounds and the walkAtRules callback.*)
(* options.queries maps a query string to the name of its media file; the  *)
(* model names the file of queries[i] by the index i.  The store is        *)
(* outside this component: trace keeps the addMedia calls of one callback  *)
(* run, between the subtractBounds calls of the same reduce.               *)
(***************************************************************************)
\* no query string yet
NoQuery == [minWidth |-> Absent, maxWidth |-> Absent, spaced |-> FALSE]

\* no rule walked yet
NoRule == [params |-> NoQuery, removed |-> FALSE]

\* queriesBounds as the plugin builds it from the keys of options.queries
buildQueriesBounds(keys) == [i \in 1..Len(keys) |-> getQueryBounds(keys[i])]

\* the indices of queries, in the order of Object.keys
Keys == [i \in 1..Len(queries) |-> i]

getQueryNamesByBounds(queryBounds) ==
    SelectSeq(Keys, LAMBDA q : boundsIntersects(queryBounds, queriesBounds[q]))

getQueryNamesByDefinition(query) ==
    SelectSeq(Keys, LAMBDA q : normalize(queries[q]) = normalize(query))

\* resolveQueryNames dropping the alias matches already matched by bounds
resolveQueryNamesDeduplicated(params) ==
    LET byBounds == getQueryNamesByBounds(getQueryBounds(params))
    IN  byBounds
        \o SelectSeq(getQueryNamesByDefinition(params),
                     LAMBDA q : \A i \in 1..Len(byBounds) : byBounds[i] # q)

\* queryNames: the matches by bounds, then the matches by definition
resolveQueryNames(params) ==
    getQueryNamesByBounds(getQueryBounds(params))
        \o getQueryNamesByDefinition(params)

\* one run of the reduce callback: addToStore, then subtractBounds; each
\* call is logged with the remainder as it is when the call returns
reduceStep(acc, q, params) ==
    LET next == subtractBounds(acc.remainder, queriesBounds[q])
    IN  [remainder |-> next,
         trace |-> acc.trace
                   \o <<[op |-> "addMedia", name |-> q, query |-> params,
                         remainder |-> acc.remainder]>>
                   \o <<[op |-> "subtractBounds", name |-> q, query |-> params,
                         remainder |-> next]>>]

\* queryNames.reduce(callback, [ruleQueryBounds])
RECURSIVE reduceQueryNames(_, _, _)
reduceQueryNames(names, acc, params) ==
    IF names = <<>> THEN acc
    ELSE reduceQueryNames(Tail(names), reduceStep(acc, Head(names), params),
                          params)

\* .filter((bounds) => bounds)
filterBounds(items) == SelectSeq(items, LAMBDA bounds : bounds # Null)

\* .reduce((size, bounds) => size + getBoundsSize(bounds), 0)
RECURSIVE sumSizes(_, _)
sumSizes(items, size) ==
    IF items = <<>> THEN size
    ELSE sumSizes(Tail(items), jsAdd(size, getBoundsSize(Head(items))))

remainderSize(rem) == sumSizes(filterBounds(Flat(rem.array)), Num(0))

\* removable without queryNames.length > 0
removableBySize(names, size) == jsEq(size, Num(0))

\* the condition of atRule.remove()
removable(names, size) == Len(names) > 0 /\ jsEq(size, Num(0))

\* the callback of css.walkAtRules('media', ...), for one rule
WalkAtRule(params) ==
    LET ruleQueryBounds == getQueryBounds(params)
        names == resolveQueryNames(params)
        out == reduceQueryNames(names,
                   [remainder |-> Arr(<<ruleQueryBounds>>), trace |-> <<>>],
                   params)
        size == remainderSize(out.remainder)
    IN  /\ pc = "walk"
        /\ queryNames' = names
        /\ trace' = out.trace
        /\ remainder' = out.remainder
        /\ boundsRemainderSize' = size
        /\ atRule' = [params |-> params, removed |-> removable(names, size)]
        /\ pc' = "walked"
        /\ UNCHANGED <<queries, queriesBounds>>
        /\ UNCHANGED algebraVars

\* the tables of at most MaxQueries distinct keys drawn from texts
RECURSIVE TablesOfLen(_, _)
TablesOfLen(texts, n) ==
    IF n = 0 THEN {<<>>}
    ELSE {Append(t, q) : t \in TablesOfLen(texts, n - 1), q \in texts}

Distinct(t) == \A i, j \in 1..Len(t) : i # j => t[i] # t[j]

Tables(texts) ==
    {t \in UNION {TablesOfLen(texts, n) : n \in 0..MaxQueries} : Distinct(t)}

InitWalkFrom(texts) ==
    /\ queries \in Tables(texts)
    /\ queriesBounds = buildQueriesBounds(queries)
    /\ atRule = NoRule
    /\ queryNames = <<>>
    /\ trace = <<>>
    /\ remainder = Arr(<<>>)
    /\ boundsRemainderSize = Num(0)
    /\ pc = "walk"
    /\ queryA = NoQuery
    /\ queryB = NoQuery
    /\ boundsA = Null
    /\ boundsB = Null
    /\ call = "none"
    /\ returned = Null

\* the query strings written without the whitespace normalize removes
Canonical(texts) == {q \in texts : ~q.spaced}

\* the rules of the unrestricted walk
WalkTexts == Texts(0, MaxLiteral)

\* the unrestricted walk: any rule against any table of canonical keys
Init == InitWalkFrom(Canonical(WalkTexts))

Next == \E params \in WalkTexts : WalkAtRule(params)

Spec == Init /\ [][Next]_vars

\* a rule that names no width at all
NoWidth(query) == query.minWidth = Absent /\ query.maxWidth = Absent

\* the walk of rules without width against any table, whitespace included
InitAlias == InitWalkFrom(WalkTexts)

NextAlias == \E params \in {q \in WalkTexts : NoWidth(q)} : WalkAtRule(params)

SpecAlias == InitAlias /\ [][NextAlias]_vars

\* Bounds with minWidth < maxWidth
WellFormed(bounds) == bounds # Null /\ jsLt(bounds.minWidth, bounds.maxWidth)

\* the canonical queries with well-formed Bounds
CoverageTexts ==
    {q \in Canonical(Texts(0, MaxWidth)) : WellFormed(getQueryBounds(q))}

\* the walk of well-formed rules against tables of well-formed queries
InitCoverage == InitWalkFrom(CoverageTexts)

NextCoverage == \E params \in CoverageTexts : WalkAtRule(params)

SpecCoverage == InitCoverage /\ [][NextCoverage]_vars

(***************************************************************************)
(* The algebra on its own: two query strings are parsed, the functions are *)
(* called on the results, and what subtractBounds returns is fed back as   *)
(* an operand, as the reduce of the callback does.                         *)
(***************************************************************************)
AlgebraTexts == Texts(0 - MaxNegative, MaxWidth)

InitAlgebra ==
    /\ queryA \in AlgebraTexts
    /\ queryB \in Canonical(AlgebraTexts)
    /\ boundsA = Null
    /\ boundsB = Null
    /\ call = "none"
    /\ returned = Null
    /\ pc = "algebra"
    /\ queries = <<>>
    /\ queriesBounds = <<>>
    /\ atRule = NoRule
    /\ queryNames = <<>>
    /\ trace = <<>>
    /\ remainder = Arr(<<>>)
    /\ boundsRemainderSize = Num(0)

\* getQueryBounds(queryA), getQueryBounds(queryB)
CallGetQueryBounds ==
    /\ pc = "algebra"
    /\ call = "none"
    /\ boundsA' = getQueryBounds(queryA)
    /\ boundsB' = getQueryBounds(queryB)
    /\ call' = "getQueryBounds"
    /\ returned' = getQueryBounds(queryA)
    /\ UNCHANGED <<queryA, queryB, pc>>
    /\ UNCHANGED walkVars

\* the operands are set: parsed, or fed back
Ready == pc = "algebra" /\ call # "none"

\* boundsIncluded(boundsA, boundsB); destructuring null throws
CallBoundsIncluded ==
    /\ Ready
    /\ call' = "boundsIncluded"
    /\ returned' = IF boundsA = Null \/ boundsB = Null THEN TypeError
                   ELSE Bool(boundsIncluded(boundsA, boundsB))
    /\ UNCHANGED <<queryA, queryB, boundsA, boundsB, pc>>
    /\ UNCHANGED walkVars

\* boundsIntersects(boundsA, boundsB); destructuring null throws
CallBoundsIntersects ==
    /\ Ready
    /\ call' = "boundsIntersects"
    /\ returned' = IF boundsA = Null \/ boundsB = Null THEN TypeError
                   ELSE Bool(boundsIntersects(boundsA, boundsB))
    /\ UNCHANGED <<queryA, queryB, boundsA, boundsB, pc>>
    /\ UNCHANGED walkVars

\* subtractBounds(boundsA, boundsB)
CallSubtractBounds ==
    /\ Ready
    /\ call' = "subtractBounds"
    /\ returned' = subtractBounds(boundsA, boundsB)
    /\ UNCHANGED <<queryA, queryB, boundsA, boundsB, pc>>
    /\ UNCHANGED walkVars

\* getBoundsSize(boundsA)
CallGetBoundsSize ==
    /\ Ready
    /\ call' = "getBoundsSize"
    /\ returned' = getBoundsSize(boundsA)
    /\ UNCHANGED <<queryA, queryB, boundsA, boundsB, pc>>
    /\ UNCHANGED walkVars

\* the members of what subtractBounds returned
Pieces(value) ==
    IF IsArray(value) THEN {value.array[i] : i \in 1..Len(value.array)}
    ELSE {value}

\* a member of the difference becomes the next boundsA
FeedBackA ==
    /\ Ready
    /\ call = "subtractBounds"
    /\ \E piece \in Pieces(returned) : boundsA' = piece
    /\ call' = "fed"
    /\ returned' = Null
    /\ UNCHANGED <<queryA, queryB, boundsB, pc>>
    /\ UNCHANGED walkVars

\* a member of the difference becomes the next boundsB
FeedBackB ==
    /\ Ready
    /\ call = "subtractBounds"
    /\ \E piece \in Pieces(returned) : boundsB' = piece
    /\ call' = "fed"
    /\ returned' = Null
    /\ UNCHANGED <<queryA, queryB, boundsA, pc>>
    /\ UNCHANGED walkVars

NextAlgebra ==
    \/ CallGetQueryBounds
    \/ CallBoundsIncluded
    \/ CallBoundsIntersects
    \/ CallSubtractBounds
    \/ CallGetBoundsSize
    \/ FeedBackA
    \/ FeedBackB

SpecAlgebra == InitAlgebra /\ [][NextAlgebra]_vars

(***************************************************************************)
(* Properties of the parser and of the algebra, under SpecAlgebra.         *)
(***************************************************************************)
\* an extracted value that is a number, and one that is > 0, >= 0
IsLit(token) == token.k = "lit"

Positive(token) == IsLit(token) /\ token.v > 0

NonNegative(token) == IsLit(token) /\ token.v >= 0

TokenNumber(token) == IF IsLit(token) THEN Num(token.v) ELSE NaN

\* the value the two extracted sides of a query are to be parsed to
ParseExpected(query) ==
    IF Positive(query.minWidth) \/ Positive(query.maxWidth)
    THEN [minWidth |-> IF NonNegative(query.minWidth)
                       THEN Num(query.minWidth.v) ELSE NEGATIVE_INFINITY,
          maxWidth |-> IF NonNegative(query.maxWidth)
                       THEN Num(query.maxWidth.v) ELSE POSITIVE_INFINITY]
    ELSE [minWidth |-> TokenNumber(query.minWidth),
          maxWidth |-> TokenNumber(query.maxWidth)]

\* the passthrough branch: neither extracted side is a positive number
Passthrough(query) == ~Positive(query.minWidth) /\ ~Positive(query.maxWidth)

Untracked == [minWidth |-> NaN, maxWidth |-> NaN]

Parsed == call = "getQueryBounds"

\* C7: for every pair of extracted values, getQueryBounds returns Bounds
\* defaulted to the infinities when at least one value is > 0 (the extracted
\* value where it is a number >= 0, the infinity of its side otherwise), and
\* the extracted pair unmodified in every other case.
C7_ParseByCases ==
    Parsed => /\ returned = ParseExpected(queryA)
              /\ boundsA = ParseExpected(queryA)
              /\ boundsB = ParseExpected(queryB)

\* min 1 / max 2 written with whitespace gives {1, 2}, max 2 alone gives
\* {-Infinity, 2}
C7_Witness ==
    /\ Parsed
    /\ queryA = [minWidth |-> Lit(1), maxWidth |-> Lit(2), spaced |-> TRUE]
    /\ boundsA = [minWidth |-> Num(1), maxWidth |-> Num(2)]
    /\ queryB = [minWidth |-> Absent, maxWidth |-> Lit(2), spaced |-> FALSE]
    /\ boundsB = [minWidth |-> NEGATIVE_INFINITY, maxWidth |-> Num(2)]

\* the non-null members of a value subtractBounds returned
BoundsOf(value) == {piece \in Pieces(value) : piece # Null}

BothExtracted(query) == IsLit(query.minWidth) /\ IsLit(query.maxWidth)

\* C5 as stated: every Bounds that parsing a pair of extracted integers or
\* a subtraction produces has minWidth <= maxWidth, and never equal
\* endpoints.
C5_AllBoundsOrdered ==
    /\ Parsed /\ BothExtracted(queryA) => WellFormed(boundsA)
    /\ call = "subtractBounds" =>
           \A piece \in BoundsOf(returned) : WellFormed(piece)

\* C5 amended: the Bounds parsed from an extracted min-width integer
\* strictly below the extracted max-width integer, and every Bounds left by
\* subtracting well-formed Bounds from well-formed Bounds, has
\* minWidth < maxWidth; a member of a split with equal endpoints is null.
C5_OrderedFromOrdered ==
    /\ (/\ Parsed
        /\ BothExtracted(queryA)
        /\ queryA.minWidth.v < queryA.maxWidth.v) => WellFormed(boundsA)
    /\ (/\ call = "subtractBounds"
        /\ WellFormed(boundsA)
        /\ WellFormed(boundsB)) =>
           \A piece \in BoundsOf(returned) : WellFormed(piece)

\* a split whose lower member had equal endpoints and became null
C5_Witness ==
    /\ call = "subtractBounds"
    /\ WellFormed(boundsA)
    /\ WellFormed(boundsB)
    /\ IsArray(returned)
    /\ returned.array[1] = Null
    /\ returned.array[2] # Null

\* C4 as stated: for all Bounds A and B, degenerate literal Bounds and
\* Untracked included, subtract(A, B) is A when intersects(A, B) is false.
C4_DisjointUnchanged ==
    (/\ call = "subtractBounds"
     /\ boundsA # Null
     /\ boundsB # Null
     /\ ~boundsIntersects(boundsA, boundsB)) => returned = boundsA

\* neither equal nor inverted endpoints: minWidth >= maxWidth is false
\* (true of well-formed Bounds and of Bounds with a NaN endpoint)
NotCollapsed(bounds) == ~jsGe(bounds.minWidth, bounds.maxWidth)

\* C4 amended: for all Bounds A and B whose endpoints are neither equal nor
\* inverted (well-formed Bounds, Untracked and the other values with a NaN
\* endpoint), subtract(A, B) is A when intersects(A, B) is false; with an
\* Empty operand, for which intersects is not defined, subtract(Empty, B) is
\* Empty and subtract(A, Empty) is A.
C4_DisjointUnchangedNotCollapsed ==
    call = "subtractBounds" =>
        /\ boundsA = Null => returned = Null
        /\ boundsA # Null /\ boundsB = Null => returned = boundsA
        /\ (/\ boundsA # Null
            /\ boundsB # Null
            /\ NotCollapsed(boundsA)
            /\ NotCollapsed(boundsB)
            /\ ~boundsIntersects(boundsA, boundsB)) => returned = boundsA

\* two well-formed Bounds that share only a boundary point
C4_Witness ==
    /\ call = "subtractBounds"
    /\ WellFormed(boundsA)
    /\ WellFormed(boundsB)
    /\ boundsA.maxWidth = boundsB.minWidth
    /\ ~boundsIntersects(boundsA, boundsB)
    /\ returned = boundsA

\* C6: a value the parser returned through its passthrough branch is never
\* included in, never includes and never intersects any other value.
C6_PassthroughNeverMatches ==
    (/\ call \in {"boundsIncluded", "boundsIntersects"}
     /\ boundsA # Null
     /\ boundsB # Null
     /\ boundsA # boundsB
     /\ \/ Passthrough(queryA) /\ boundsA = getQueryBounds(queryA)
        \/ Passthrough(queryB) /\ boundsB = getQueryBounds(queryB))
        => returned = Bool(FALSE)

\* the size a Bounds is to have: gap - 1 for a gap above 1, 0 otherwise
ExpectedSize(bounds) ==
    LET lo == bounds.minWidth
        hi == bounds.maxWidth
    IN  CASE lo.k = "nan" \/ hi.k = "nan" -> Num(0)
          [] lo.k = "num" /\ hi.k = "num" ->
                 IF hi.v - lo.v > 1 THEN Num(hi.v - lo.v - 1) ELSE Num(0)
          [] lo.k = "inf" /\ hi.k = "inf" ->
                 IF lo.v < hi.v THEN POSITIVE_INFINITY ELSE Num(0)
          [] lo.k = "inf" -> IF lo.v < 0 THEN POSITIVE_INFINITY ELSE Num(0)
          [] OTHER -> IF hi.v > 0 THEN POSITIVE_INFINITY ELSE Num(0)

Pos(x) ==
    IF x.k = "inf"
    THEN (IF x.v < 0 THEN 0 - MaxNegative - 1 ELSE MaxWidth + 1)
    ELSE x.v

\* the points of a well-formed Bounds: cell i is [i, i + 1), the lowest cell
\* reaches down to -Infinity and the highest up to +Infinity
Cells(bounds) ==
    {i \in (0 - MaxNegative - 1)..MaxWidth :
         Pos(bounds.minWidth) <= i /\ i < Pos(bounds.maxWidth)}

\* C9: for well-formed Bounds A and B, the non-null members of
\* subtract(A, B) are well-formed, pairwise disjoint and cover exactly the
\* points of A outside B; the result is null when B contains A, a list of
\* two members split around B when A contains B, one trimmed Bounds on a
\* partial overlap and A itself when they are disjoint.
C9_SubtractIsSetDifference ==
    (/\ call = "subtractBounds"
     /\ WellFormed(boundsA)
     /\ WellFormed(boundsB)) =>
        LET A == Cells(boundsA)
            B == Cells(boundsB)
            members == BoundsOf(returned)
        IN  /\ \A m \in members : WellFormed(m)
            /\ \A m, n \in members : m # n => Cells(m) \cap Cells(n) = {}
            /\ UNION {Cells(m) : m \in members} = A \ B
            /\ A \subseteq B => returned = Null
            /\ (B \subseteq A /\ A # B) =>
                   /\ IsArray(returned)
                   /\ Len(returned.array) = 2
                   /\ returned.array[1] =
                          nullBounds([minWidth |-> boundsA.minWidth,
                                      maxWidth |-> boundsB.minWidth])
                   /\ returned.array[2] =
                          nullBounds([minWidth |-> boundsB.maxWidth,
                                      maxWidth |-> boundsA.maxWidth])
            /\ (A \cap B # {} /\ ~(A \subseteq B) /\ ~(B \subseteq A)) =>
                   /\ WellFormed(returned)
                   /\ Cells(returned) = A \ B
            /\ A \cap B = {} => returned = boundsA

\* a split that leaves Bounds on both sides of B
C9_Witness ==
    /\ call = "subtractBounds"
    /\ WellFormed(boundsA)
    /\ WellFormed(boundsB)
    /\ IsArray(returned)
    /\ WellFormed(returned.array[1])
    /\ WellFormed(returned.array[2])

(***************************************************************************)
(* Properties of the walkAtRules callback.                                 *)
(***************************************************************************)
Walked == pc = "walked"

\* the configured queries the rule matches by bounds, and by definition
MatchedByBounds ==
    {i \in 1..Len(queries) :
         boundsIntersects(getQueryBounds(atRule.params),
                          getQueryBounds(queries[i]))}

MatchedByDefinition ==
    {i \in 1..Len(queries) : normalize(queries[i]) = normalize(atRule.params)}

\* the members of a set of indices in increasing order
RECURSIVE Ascending(_)
Ascending(S) ==
    IF S = {} THEN <<>>
    ELSE LET least == CHOOSE i \in S : \A j \in S : i <= j
         IN  <<least>> \o Ascending(S \ {least})

\* C1: the rule is removed if and only if it has at least one candidate and
\* the residual size is exactly 0; a rule without candidates is never
\* removed.
C1_RemovedIffCoveredCandidates ==
    /\ ~Walked => ~atRule.removed
    /\ Walked =>
           /\ boundsRemainderSize = remainderSize(remainder)
           /\ atRule.removed <=>
                  /\ MatchedByBounds \cup MatchedByDefinition # {}
                  /\ boundsRemainderSize = Num(0)

\* a rule with residual size 0 and no candidate stays
C1_Witness ==
    /\ Walked
    /\ queries # <<>>
    /\ queryNames = <<>>
    /\ boundsRemainderSize = Num(0)
    /\ ~atRule.removed

\* the addMedia calls of the trace, in order
Emissions == SelectSeq(trace, LAMBDA e : e.op = "addMedia")

\* the remainder before the k-th candidate is subtracted
RemainderBefore(k) ==
    IF k = 1 THEN Arr(<<getQueryBounds(atRule.params)>>)
    ELSE trace[2 * k - 2].remainder

AllNull(value) == \A i \in 1..Len(value.array) : value.array[i] = Null

\* C3: the addMedia calls are one per configured query whose Bounds
\* intersect the rule's, in table order, then one per configured query whose
\* normalized text is the rule's, in table order, a query matching both ways
\* being emitted twice; each call precedes the subtraction of its candidate
\* and is made whatever the remainder is.
C3_EmissionOrder ==
    Walked =>
        LET expected == Ascending(MatchedByBounds)
                            \o Ascending(MatchedByDefinition)
        IN  /\ queryNames = expected
            /\ Len(trace) = 2 * Len(expected)
            /\ Len(Emissions) = Len(expected)
            /\ \A k \in 1..Len(expected) :
                   /\ trace[2 * k - 1].op = "addMedia"
                   /\ trace[2 * k - 1].name = expected[k]
                   /\ trace[2 * k - 1].query = atRule.params
                   /\ trace[2 * k - 1].remainder = RemainderBefore(k)
                   /\ trace[2 * k].op = "subtractBounds"
                   /\ trace[2 * k].name = expected[k]
                   /\ trace[2 * k].remainder =
                          subtractBounds(RemainderBefore(k),
                                         getQueryBounds(queries[expected[k]]))

\* the second of two configured queries is emitted twice, by bounds and by
\* definition, the last time with nothing left of the rule
C3_Witness ==
    /\ Walked
    /\ queryNames = <<1, 2, 2>>
    /\ trace[5].op = "addMedia"
    /\ trace[5].name = 2
    /\ AllNull(trace[5].remainder)

\* the points of the rule that no configured query covers
Uncovered ==
    Cells(getQueryBounds(atRule.params))
        \ UNION {Cells(getQueryBounds(queries[i])) : i \in 1..Len(queries)}

\* the first cells of the maximal runs of a set of cells
RunStarts(U) == {i \in U : i - 1 \notin U}

\* the last cell of the run that starts at cell i
RunEnd(U, i) == CHOOSE j \in U : /\ j >= i
                                 /\ (i..j) \subseteq U
                                 /\ j + 1 \notin U

\* the size of the interval made of the cells i..j: unbounded when it
\* reaches an infinity, else its gap less one, and 0 for a gap of 1
RunSize(i, j) ==
    IF i < 0 - MaxNegative \/ j >= MaxWidth THEN POSITIVE_INFINITY
    ELSE IF j + 1 - i > 1 THEN Num(j - i) ELSE Num(0)

RECURSIVE SumRuns(_, _)
SumRuns(U, starts) ==
    IF starts = {} THEN Num(0)
    ELSE LET i == CHOOSE x \in starts : TRUE
             rest == SumRuns(U, starts \ {i})
             this == RunSize(i, RunEnd(U, i))
         IN  IF this.k = "inf" \/ rest.k = "inf" THEN POSITIVE_INFINITY
             ELSE Num(this.v + rest.v)

\* C2: for a well-formed rule and a table of well-formed queries the
\* residual size is the sum of the sizes of the maximal intervals of the
\* rule that the candidates leave uncovered, and the rule is removed exactly
\* when it has a candidate and that sum is 0.
C2_ResidualIsUncoveredSize ==
    Walked =>
        /\ boundsRemainderSize = SumRuns(Uncovered, RunStarts(Uncovered))
        /\ atRule.removed <=>
               /\ queryNames # <<>>
               /\ SumRuns(Uncovered, RunStarts(Uncovered)) = Num(0)
        /\ Uncovered = {} /\ queries # <<>> => atRule.removed

\* two different configured queries tile the rule exactly: it is removed
C2_Witness ==
    /\ Walked
    /\ Len(queries) = 2
    /\ Cells(queriesBounds[1]) \cap Cells(queriesBounds[2]) = {}
    /\ Cells(queriesBounds[1]) \cup Cells(queriesBounds[2])
           = Cells(getQueryBounds(atRule.params))
    /\ queryNames = <<1, 2>>
    /\ boundsRemainderSize = Num(0)
    /\ atRule.removed

\* C10: a rule that names no width and whose normalized text is that of at
\* least one configured query is emitted once per such query and removed:
\* its remainder is the one Untracked value before and after every
\* subtraction, and its residual size is 0.
C10_AliasOnlyRuleRemoved ==
    (/\ Walked
     /\ NoWidth(atRule.params)
     /\ MatchedByDefinition # {}) =>
        /\ queryNames = Ascending(MatchedByDefinition)
        /\ Len(Emissions) = Cardinality(MatchedByDefinition)
        /\ \A i \in MatchedByDefinition :
               Cardinality({k \in 1..Len(Emissions) : Emissions[k].name = i}) = 1
        /\ \A k \in 1..Len(trace) : trace[k].remainder = Arr(<<Untracked>>)
        /\ remainder = Arr(<<Untracked>>)
        /\ boundsRemainderSize = Num(0)
        /\ atRule.removed

\* two configured queries that differ in whitespace only both alias the rule
C10_Witness ==
    /\ Walked
    /\ NoWidth(atRule.params)
    /\ atRule.params.spaced
    /\ queryNames = <<1, 2>>
    /\ Len(trace) = 4
    /\ atRule.removed

====
